---- MODULE Spec2Model ----
(***************************************************************************)
(* LLM-AIXI agent loop: main() of src/main.py with the Ideator             *)
(* (src/agent/agent.py), the Orchestrator (src/environment/orchestrator.py)*)
(* the Judge (src/environment/judge.py), AgentState (src/agent/models.py)  *)
(* and the TokenTracker (src/utils/token_tracker.py).                      *)
(*                                                                         *)
(* A text is a sequence of tokens (strings); " " and "\n" are the          *)
(* whitespace tokens.  The history string of AgentState is the sequence of *)
(* the blocks add_action / add_percept append to it.                       *)
(***************************************************************************)
EXTENDS Integers, Sequences, FiniteSets, TLC

VARIABLES
    pc,               \* position of main()
    config_error,     \* what load_system_config or validate_config raised
    max_cycles,       \* system_config.max_cycles
    cycle,            \* the for-loop variable of main (0 before the first iteration)
    cycle_number,     \* agent_state.cycle_number
    history,          \* agent_state.history, as the sequence of appended blocks
    total_actions,    \* agent_state.total_actions
    action,           \* local variable action of main
    tool_result,      \* local variable tool_result of process_action
    percept,          \* local variable percept of main
    clock,            \* datetime.now(), a logical clock
    usage_history,    \* token_tracker.usage_history
    loop_exit,        \* how the for loop was left
    ideator_calls,    \* calls of ideator.model.generate_content
    tool_invocations, \* calls of a registered subenvironment function
    judge_calls,      \* calls of judge.evaluate_action
    overall_calls,    \* calls of judge.evaluate_overall_performance, with the history read
    start_time,       \* local variable start_time of main
    end_time,         \* local variable end_time of main
    overall_evaluation, \* local variable overall_evaluation of main
    transcript,       \* the files written by save_history
    report,           \* the last completion line main printed
    exit_code,        \* what main returned
    disk,             \* one process_file_system_action call and the files around it
    execution,        \* one process_code_execution_action or process_web_search_action call
    parse,            \* one Ideator._parse_response call
    feedback          \* one AgentState.get_last_judge_feedback call

main_vars == <<pc, config_error, max_cycles, cycle, cycle_number, history, total_actions,
               action, tool_result, percept, clock, usage_history, loop_exit,
               ideator_calls, tool_invocations, judge_calls, overall_calls, start_time,
               end_time, overall_evaluation, transcript, report, exit_code>>

\* the calls the component specifications look at one at a time
component_calls == <<disk, execution, parse, feedback>>

vars == <<main_vars, component_calls>>

\* no component call is under observation
NoCall == [called |-> FALSE]

\* Largest max_cycles the model explores.
MaxCycles == 3

(***************************************************************************)
(* Texts                                                                   *)
(***************************************************************************)
Whitespace == {" ", "\n"}

RECURSIVE lstrip(_)
lstrip(t) ==
    IF t = <<>> THEN <<>>
    ELSE IF Head(t) \in Whitespace THEN lstrip(Tail(t)) ELSE t

RECURSIVE rstrip(_)
rstrip(t) ==
    IF t = <<>> THEN <<>>
    ELSE IF t[Len(t)] \in Whitespace THEN rstrip(SubSeq(t, 1, Len(t) - 1)) ELSE t

\* str.strip()
strip(t) == rstrip(lstrip(t))

\* len(text): the number of characters of a text
RECURSIVE len(_)
len(t) == IF t = <<>> THEN 0 ELSE Len(Head(t)) + len(Tail(t))

\* index of the first occurrence of token k in t, 0 when there is none
find(t, k) ==
    IF \E i \in 1..Len(t) : t[i] = k
    THEN CHOOSE i \in 1..Len(t) : t[i] = k /\ \A j \in 1..(i - 1) : t[j] # k
    ELSE 0

\* the text after position i
after(t, i) == SubSeq(t, i + 1, Len(t))

\* the text up to the first "\n" (the rest of the line)
line(t) == IF find(t, "\n") = 0 THEN t ELSE SubSeq(t, 1, find(t, "\n") - 1)

(***************************************************************************)
(* Registry of subenvironments                                             *)
(***************************************************************************)
SUBENVIRONMENTS == <<"file_system", "web_search", "code_executor", "consultant">>

registered(name) == \E i \in 1..Len(SUBENVIRONMENTS) : name = <<SUBENVIRONMENTS[i]>>

RECURSIVE join(_, _)
\* ", ".join(keys)
join(sep, keys) ==
    IF keys = <<>> THEN <<>>
    ELSE IF Len(keys) = 1 THEN <<keys[1]>>
    ELSE <<keys[1], sep>> \o join(sep, Tail(keys))

(***************************************************************************)
(* Action and Percept                                                      *)
(***************************************************************************)
None == [subenvironment |-> <<>>, input_body |-> <<>>, timestamp |-> 0,
         reasoning |-> <<>>]

Action(subenvironment, input_body, reasoning, now) ==
    [subenvironment |-> subenvironment, input_body |-> input_body,
     timestamp |-> now, reasoning |-> reasoning]

NoPercept == [tool_result |-> <<>>, judge_essay |-> <<>>, timestamp |-> 0,
              action_reference |-> None]

(***************************************************************************)
(* Ideator._parse_response                                                 *)
(***************************************************************************)
\* json.loads(input_body) succeeds: the payload is one JSON document
JsonDocuments == {"{}", "{\"action\": \"list_files\"}"}

json_loads_ok(body) == Len(body) = 1 /\ body[1] \in JsonDocuments

\* re.search(r'REASONING:\s*(.*?)(?=ACTION:|$)', text, re.DOTALL), stripped
reasoning_of(text) ==
    LET i == find(text, "REASONING:") IN
    IF i = 0 THEN <<>>
    ELSE LET rest == after(text, i)
             j == find(rest, "ACTION:")
         IN strip(IF j = 0 THEN rest ELSE SubSeq(rest, 1, j - 1))

\* mutant: the payload is taken as it is, json.loads is not tried
_parse_response_unvalidated(response_text, now) ==
    LET a == find(response_text, "ACTION:") IN
    IF a = 0 THEN [action |-> None, error |-> <<"No ACTION section found in response">>]
    ELSE
    LET action_text == strip(after(response_text, a))
        s == find(action_text, "subenvironment:")
        b == find(action_text, "input_body:")
    IN
    IF s = 0 \/ s = Len(action_text)
    THEN [action |-> None, error |-> <<"No subenvironment specified in action">>]
    ELSE IF b = 0
    THEN [action |-> None, error |-> <<"No input_body specified in action">>]
    ELSE [action |-> Action(strip(line(lstrip(after(action_text, s)))),
                            strip(after(action_text, b)),
                            reasoning_of(response_text), now),
          error |-> <<>>]

\* the result of _parse_response: <<action or None, error>>
_parse_response(response_text, now) ==
    LET a == find(response_text, "ACTION:") IN
    IF a = 0 THEN [action |-> None, error |-> <<"No ACTION section found in response">>]
    ELSE
    LET action_text == strip(after(response_text, a))
        s == find(action_text, "subenvironment:")
        b == find(action_text, "input_body:")
    IN
    IF s = 0 \/ s = Len(action_text)
    THEN [action |-> None, error |-> <<"No subenvironment specified in action">>]
    ELSE IF b = 0
    THEN [action |-> None, error |-> <<"No input_body specified in action">>]
    ELSE
    LET subenvironment == strip(line(lstrip(after(action_text, s))))
        input_body == strip(after(action_text, b))
    IN
    IF ~json_loads_ok(input_body)
    THEN [action |-> None, error |-> <<"Invalid JSON in input_body: ", "JSONDecodeError">>]
    ELSE [action |-> Action(subenvironment, input_body, reasoning_of(response_text), now),
          error |-> <<>>]

(***************************************************************************)
(* External calls: what a model call or a tool function can do             *)
(***************************************************************************)
\* response.text of the primary model (<<>> is the empty text)
IdeatorTexts ==
    { <<"REASONING:", " ", "why", "\n", "ACTION:", "\n", "subenvironment:", " ",
        "file_system", "\n", "input_body:", " ", "{\"action\": \"list_files\"}">>,
      <<"REASONING:", " ", "why", "\n", "ACTION:", "\n", "subenvironment:", " ",
        "query_human", "\n", "input_body:", " ", "{}", "\n">>,
      <<"REASONING:", " ", "why", "\n", "ACTION:", "\n", "subenvironment:", " ",
        "file_system", "\n", "input_body:", " ">>,
      <<"REASONING:", " ", "why", "\n", "ACTION:", "\n", "subenvironment:", " ",
        "file_system", "\n", "input_body:", " ", "{bad">>,
      <<"REASONING:", " ", "why", "\n", "ACTION:", "\n", "input_body:", " ", "{}">>,
      <<"REASONING:", " ", "why">>,
      <<"ok">>,
      <<>> }

\* what a raise can be: an Exception, or KeyboardInterrupt, which is a BaseException
\* and no Exception
ExceptionClasses == {"Exception", "KeyboardInterrupt"}

\* generate_content returns a response or raises; str(e) is msg
ModelOutcomes(texts) ==
    {[kind |-> "text", text |-> t, exc |-> "", msg |-> <<>>] : t \in texts}
        \cup {[kind |-> "raise", text |-> <<>>, exc |-> c, msg |-> <<"503 unavailable">>] :
                 c \in ExceptionClasses}

\* response.text of the judge model
JudgeTexts == { <<"Good", " ", "progress.", "\n">>, <<>> }

\* what a registered subenvironment function does with a payload
ToolOutcomes ==
    { [kind |-> "return", exc |-> "", text |-> <<"SUCCESS: ", "Directory '.' is empty">>],
      [kind |-> "return", exc |-> "", text |-> <<"ERROR: ", "Unknown action 'None'">>],
      [kind |-> "raise", exc |-> "Exception", text |-> <<"[Errno 13] Permission denied">>],
      [kind |-> "raise", exc |-> "KeyboardInterrupt", text |-> <<>>] }

(***************************************************************************)
(* TokenTracker                                                            *)
(***************************************************************************)
\* mutant: the estimate is the quotient alone
estimate_tokens_floor(text) == len(text) \div 4

\* line 50: max(1, len(text) // 4)
estimate_tokens(text) == IF len(text) \div 4 > 1 THEN len(text) \div 4 ELSE 1

\* lines 67-94: the record of one call is appended
track_usage(usage, prompt, completion, call_type) ==
    Append(usage, [call_type |-> call_type,
                   prompt_tokens |-> estimate_tokens(prompt),
                   completion_tokens |-> estimate_tokens(completion),
                   total_tokens |-> estimate_tokens(prompt) + estimate_tokens(completion)])

\* sum(usage.<field> for usage in self.usage_history)
RECURSIVE sum(_, _)
sum(usage, field) ==
    IF usage = <<>> THEN 0 ELSE Head(usage)[field] + sum(Tail(usage), field)

\* lines 96-123
get_total_usage(usage) ==
    [total_prompt_tokens |-> sum(usage, "prompt_tokens"),
     total_completion_tokens |-> sum(usage, "completion_tokens"),
     total_tokens |-> sum(usage, "total_tokens"),
     total_calls |-> Len(usage)]

(***************************************************************************)
(* Ideator.choose_action                                                   *)
(***************************************************************************)
\* <<action or None, error>> of choose_action for one outcome of the model call
\* "except Exception" of choose_action: what it catches
choose_action_catches(exc) == exc = "Exception"

\* mutant: a failed selection is replaced by a default action
choose_action_guesses(outcome, now) ==
    [action |-> Action(<<"file_system">>, <<"{}">>, <<>>, now), error |-> <<>>]

choose_action(outcome, now) ==
    IF outcome.kind = "raise"
    THEN [action |-> None, error |-> <<"Error in action selection: ">> \o outcome.msg]
    ELSE IF outcome.text = <<>>
    THEN [action |-> None, error |-> <<"No response received from LLM">>]
    ELSE LET parsed == _parse_response(outcome.text, now) IN
         IF parsed.error # <<>>
         THEN [action |-> None,
               error |-> <<"Failed to parse LLM response: ">> \o parsed.error]
         ELSE [action |-> parsed.action, error |-> <<>>]

\* choose_action records a usage exactly when the model returned a text
choose_action_tracks(outcome) == outcome.kind = "text" /\ outcome.text # <<>>

(***************************************************************************)
(* Orchestrator                                                            *)
(***************************************************************************)
\* the subenvironment function is called: the name is a key of the registry
_route_invokes(act) == registered(act.subenvironment)

\* mutant: the try block around the subenvironment function is missing
_route_catches_nothing(exc) == FALSE

\* "except Exception" of _route_to_subenvironment: what it catches
_route_catches(exc) == exc = "Exception"

\* mutant: the unknown name is reported without the list of registered names
_route_omits_available(act, outcome) ==
    IF ~registered(act.subenvironment)
    THEN <<"ERROR: Unknown subenvironment '">> \o act.subenvironment \o <<"'">>
    ELSE IF outcome.kind = "return" THEN outcome.text
    ELSE <<"ERROR: Subenvironment '">> \o act.subenvironment \o <<"' failed: ">>
            \o outcome.text

_route_to_subenvironment(act, outcome) ==
    IF ~registered(act.subenvironment)
    THEN <<"ERROR: Unknown subenvironment '">> \o act.subenvironment
            \o <<"'. Available: ">> \o join(", ", SUBENVIRONMENTS)
    ELSE IF outcome.kind = "return" THEN outcome.text
    ELSE <<"ERROR: Subenvironment '">> \o act.subenvironment \o <<"' failed: ">>
            \o outcome.text

\* Orchestrator.validate_action: <<is_valid, error_message>>
validate_action(act) ==
    IF ~registered(act.subenvironment)
    THEN [is_valid |-> FALSE,
          error_message |-> <<"Unknown subenvironment '">> \o act.subenvironment
                               \o <<"'. Available: ">> \o join(", ", SUBENVIRONMENTS)]
    ELSE IF strip(act.input_body) = <<>>
    THEN [is_valid |-> FALSE, error_message |-> <<"Action input_body cannot be empty">>]
    ELSE [is_valid |-> TRUE, error_message |-> <<>>]

(***************************************************************************)
(* Judge                                                                   *)
(***************************************************************************)
\* mutant: the try block of evaluate_action is missing
evaluate_action_catches_nothing(exc) == FALSE

\* "except Exception" of evaluate_action: what it catches
evaluate_action_catches(exc) == exc = "Exception"

\* "except Exception" of evaluate_overall_performance: what it catches
evaluate_overall_catches(exc) == exc = "Exception"

evaluate_action(outcome) ==
    IF outcome.kind = "raise"
    THEN <<"ERROR: Judge evaluation failed: ">> \o outcome.msg
    ELSE IF outcome.text = <<>>
    THEN <<"ERROR: No evaluation received from judge">>
    ELSE strip(outcome.text)

evaluate_overall_performance(outcome) ==
    IF outcome.kind = "raise"
    THEN <<"ERROR: Overall evaluation failed: ">> \o outcome.msg
    ELSE IF outcome.text = <<>>
    THEN <<"ERROR: No overall evaluation received from judge">>
    ELSE strip(outcome.text)

\* the judge records a usage exactly when its model returned a text
judge_tracks(outcome) == outcome.kind = "text" /\ outcome.text # <<>>

\* Percept(tool_result, judge_essay, action_reference) of process_action
Percept(result, judge_essay, act, now) ==
    [tool_result |-> result, judge_essay |-> judge_essay, timestamp |-> now,
     action_reference |-> act]

(***************************************************************************)
(* AgentState                                                              *)
(***************************************************************************)
\* mutant: the Action is counted and no block is appended
add_action_forgets(hist, cn, act) == hist

\* the block add_action appends to the history
add_action(hist, cn, act) ==
    Append(hist, [kind |-> "ACTION", cycle |-> cn, timestamp |-> act.timestamp,
                  subenvironment |-> act.subenvironment,
                  input_body |-> act.input_body, reasoning |-> act.reasoning])

\* mutant: the Percept block takes the place of the last history entry
add_percept_rewrites(hist, cn, p) ==
    Append(SubSeq(hist, 1, Len(hist) - 1),
           [kind |-> "PERCEPT", cycle |-> cn, timestamp |-> p.timestamp,
            tool_result |-> p.tool_result, judge_essay |-> p.judge_essay])

\* the block add_percept appends to the history
add_percept(hist, cn, p) ==
    Append(hist, [kind |-> "PERCEPT", cycle |-> cn, timestamp |-> p.timestamp,
                  tool_result |-> p.tool_result, judge_essay |-> p.judge_essay])

\* mutant: the cycle number advances by two
increment_cycle_skips(cn) == cn + 2

increment_cycle(cn) == cn + 1

\* mutant: only the most recent Action and Percept are rendered
get_formatted_history_recent(hist, cn) ==
    IF hist = <<>> THEN [cycles_completed |-> -1, blocks |-> <<>>]
    ELSE [cycles_completed |-> cn,
          blocks |-> IF Len(hist) <= 2 THEN hist ELSE SubSeq(hist, Len(hist) - 1, Len(hist))]

get_formatted_history(hist, cn) ==
    IF hist = <<>> THEN [cycles_completed |-> -1, blocks |-> <<>>]
    ELSE [cycles_completed |-> cn, blocks |-> hist]

\* the marker add_percept writes before the judge feedback
Marker == "Judge's Evaluation:"

\* a line of 60 '=' characters
Separator == "============================================================"

\* lines 121-128 and 138-142: the text a history block is
block_text(block) ==
    IF block.kind = "ACTION"
    THEN <<"\n", "--- CYCLE ACTION ---", "\n", "Timestamp: ", "\n", "Subenvironment: ">>
            \o block.subenvironment \o <<"\n", "Input: ">> \o block.input_body
            \o (IF block.reasoning # <<>>
                THEN <<"\n", "Reasoning: ">> \o block.reasoning ELSE <<>>)
            \o <<"\n">>
    ELSE <<"\n", "--- CYCLE PERCEPT ---", "\n", "Timestamp: ", "\n", "Tool Result: ">>
            \o block.tool_result \o <<"\n", "\n", Marker, " ">> \o block.judge_essay
            \o <<"\n", "\n", Separator, "\n">>

\* self.history: the texts of the blocks, one after the other
RECURSIVE history_text(_)
history_text(hist) ==
    IF hist = <<>> THEN <<>> ELSE block_text(Head(hist)) \o history_text(Tail(hist))

\* index of the last occurrence of token k in t, 0 when there is none
find_last(t, k) ==
    IF \E i \in 1..Len(t) : t[i] = k
    THEN CHOOSE i \in 1..Len(t) : t[i] = k /\ \A j \in (i + 1)..Len(t) : t[j] # k
    ELSE 0

\* t.split("\n" + "=" * 60)[0]: the text before the first line that begins
\* with the separator
before_separator(t) ==
    IF \E i \in 1..Len(t) - 1 : t[i] = "\n" /\ t[i + 1] = Separator
    THEN LET i == CHOOSE i \in 1..Len(t) - 1 :
                     /\ t[i] = "\n" /\ t[i + 1] = Separator
                     /\ \A j \in 1..(i - 1) : ~(t[j] = "\n" /\ t[j + 1] = Separator)
         IN SubSeq(t, 1, i - 1)
    ELSE t

\* models.py lines 162-179
get_last_judge_feedback(text) ==
    IF find_last(text, Marker) = 0 THEN <<>>
    ELSE strip(before_separator(after(text, find_last(text, Marker))))

\* get_formatted_history as the text it is (lines 150-160)
formatted_history(hist) ==
    IF hist = <<>> THEN <<"No actions taken yet.">>
    ELSE <<"AGENT HISTORY (Cycles completed: ):", "\n">> \o history_text(hist)

\* agent.py lines 61-121: the prompt of the primary model, with the history and
\* the last feedback
_construct_prompt(hist) ==
    <<"=== YOUR HISTORY ===", "\n">> \o formatted_history(hist)
        \o (IF get_last_judge_feedback(history_text(hist)) # <<>>
            THEN <<"\n", "Your last action was evaluated thusly: ">>
                    \o get_last_judge_feedback(history_text(hist))
            ELSE <<>>)
        \o <<"\n", "Choose your action now:">>

\* judge.py lines 59-96: the prompt of the per-action judge
_construct_evaluation_prompt(hist, result) ==
    <<"=== AGENT'S COMPLETE HISTORY ===", "\n">> \o formatted_history(hist)
        \o <<"\n", "Tool Result: ">> \o result \o <<"\n", "Your evaluation essay:">>

\* judge.py lines 145-184: the prompt of the whole-run evaluation
overall_prompt(hist) ==
    <<"=== COMPLETE AGENT HISTORY ===", "\n">> \o formatted_history(hist)
        \o <<"\n", "Provide a detailed, balanced evaluation:">>

\* mutant: the Percept is built without its action_reference
process_action_no_reference(act, result, judge_essay, now) ==
    Percept(result, judge_essay, None, now)

\* Orchestrator.process_action, after the tool and the judge returned
process_action(act, result, judge_essay, now) == Percept(result, judge_essay, act, now)

(***************************************************************************)
(* main()                                                                  *)
(***************************************************************************)
InitMain ==
    /\ pc = "start"
    /\ config_error = "none"
    /\ max_cycles = 0
    /\ cycle = 0
    /\ cycle_number = 0
    /\ history = <<>>
    /\ total_actions = 0
    /\ action = None
    /\ tool_result = <<>>
    /\ percept = NoPercept
    /\ clock = 1
    /\ usage_history = <<>>
    /\ loop_exit = "none"
    /\ ideator_calls = <<>>
    /\ tool_invocations = <<>>
    /\ judge_calls = <<>>
    /\ overall_calls = <<>>
    /\ start_time = 0
    /\ end_time = 0
    /\ overall_evaluation = <<>>
    /\ transcript = <<>>
    /\ report = "none"
    /\ exit_code = "none"

Init ==
    /\ InitMain
    /\ disk = NoCall
    /\ execution = NoCall
    /\ parse = NoCall
    /\ feedback = NoCall

agent_state == <<cycle_number, history, total_actions>>
cycle_locals == <<action, tool_result, percept>>
call_logs == <<ideator_calls, tool_invocations, judge_calls, overall_calls>>
run_end == <<end_time, overall_evaluation, transcript, report, exit_code>>

\* lines 176-181: the except clauses of the cycle's try block
main_except(exc) == IF exc = "KeyboardInterrupt" THEN "user_interrupt" ELSE "exception"

\* lines 100-142: configuration, constitution, components, start time
ConfigErrors == {"none", "VERTEX_PROJECT_ID missing", "constitution file not found"}

\* config.py lines 52-57 check the project identifier only
validate_config_skips_constitution(error) == error = "VERTEX_PROJECT_ID missing"

\* config.py lines 52-57 and 98-100: the ValueError of a missing project
\* identifier or constitution file
validate_config_raises(error) == error # "none"

\* config.py line 81: int(os.getenv("AIXI_MAX_CYCLES", "20")) is any integer,
\* a negative one included; range(1, max_cycles + 1) is then empty
ConfiguredMaxCycles == -1..MaxCycles

Startup ==
    /\ pc = "start"
    /\ \E error \in ConfigErrors, m \in ConfiguredMaxCycles :
         /\ config_error' = error
         /\ IF validate_config_raises(error)
            THEN /\ pc' = "done"
                 /\ report' = "Fatal error"
                 /\ exit_code' = "1"
                 /\ UNCHANGED <<max_cycles, start_time, clock>>
            ELSE /\ pc' = "loop"
                 /\ max_cycles' = m
                 /\ start_time' = clock
                 /\ clock' = clock + 1
                 /\ UNCHANGED <<report, exit_code>>
    /\ UNCHANGED component_calls
    /\ UNCHANGED <<cycle, agent_state, cycle_locals, usage_history, loop_exit,
                   call_logs, end_time, overall_evaluation, transcript>>

\* lines 145-150: the head of the for loop and increment_cycle
LoopNext ==
    /\ pc = "loop"
    /\ IF cycle < max_cycles
       THEN /\ cycle' = cycle + 1
            /\ cycle_number' = increment_cycle(cycle_number)
            /\ pc' = "select"
            /\ UNCHANGED loop_exit
       ELSE /\ loop_exit' = "max_cycles"
            /\ pc' = "after_loop"
            /\ UNCHANGED <<cycle, cycle_number>>
    /\ UNCHANGED component_calls
    /\ UNCHANGED <<config_error, max_cycles, history, total_actions, cycle_locals, clock,
                   usage_history, call_logs, start_time, run_end>>

\* mutant: the loop goes on after a failed selection
selection_never_breaks(error) == FALSE

\* lines 156-158: "if error: ... break"
selection_breaks(error) == error # <<>>

\* lines 152-163: choose_action, break on error, add_action
Select ==
    /\ pc = "select"
    /\ \E outcome \in ModelOutcomes(IdeatorTexts) :
         LET chosen == choose_action(outcome, clock) IN
         /\ ideator_calls' = Append(ideator_calls,
                                    [cycle |-> cycle_number, kind |-> outcome.kind,
                                     exc |-> outcome.exc, text |-> outcome.text])
         /\ IF outcome.kind = "raise" /\ ~choose_action_catches(outcome.exc)
            THEN /\ loop_exit' = main_except(outcome.exc)
                 /\ pc' = "after_loop"
                 /\ UNCHANGED <<action, usage_history, clock, total_actions, history>>
            ELSE /\ usage_history' = IF choose_action_tracks(outcome)
                                     THEN track_usage(usage_history, _construct_prompt(history),
                                                      outcome.text, "ideator")
                                     ELSE usage_history
                 /\ action' = chosen.action
                 /\ IF selection_breaks(chosen.error)
                    THEN /\ loop_exit' = "selector_failed"
                         /\ pc' = "after_loop"
                         /\ UNCHANGED <<clock, total_actions, history>>
                    ELSE /\ clock' = clock + 1
                         /\ total_actions' = total_actions + 1
                         /\ history' = add_action(history, cycle_number, chosen.action)
                         /\ pc' = "dispatch"
                         /\ UNCHANGED loop_exit
    /\ UNCHANGED component_calls
    /\ UNCHANGED <<config_error, max_cycles, cycle, cycle_number, tool_result, percept,
                   tool_invocations, judge_calls, overall_calls, start_time, run_end>>

\* orchestrator.py lines 51-52 and 71-99: the action is routed to its subenvironment
Dispatch ==
    /\ pc = "dispatch"
    /\ \E outcome \in ToolOutcomes :
         /\ tool_invocations' =
              IF _route_invokes(action)
              THEN Append(tool_invocations,
                          [cycle |-> cycle_number, subenvironment |-> action.subenvironment,
                           input_body |-> action.input_body, kind |-> outcome.kind,
                           exc |-> outcome.exc, text |-> outcome.text])
              ELSE tool_invocations
         /\ IF _route_invokes(action) /\ outcome.kind = "raise"
               /\ ~_route_catches(outcome.exc)
            THEN /\ loop_exit' = main_except(outcome.exc)
                 /\ pc' = "after_loop"
                 /\ UNCHANGED tool_result
            ELSE /\ tool_result' = _route_to_subenvironment(action, outcome)
                 /\ pc' = "evaluate"
                 /\ UNCHANGED loop_exit
    /\ UNCHANGED component_calls
    /\ UNCHANGED <<config_error, max_cycles, cycle, agent_state, action, percept, clock,
                   usage_history, ideator_calls, judge_calls, overall_calls,
                   start_time, run_end>>

\* orchestrator.py lines 54-69 and main.py lines 169-174: judge, Percept, add_percept
Evaluate ==
    /\ pc = "evaluate"
    /\ \E outcome \in ModelOutcomes(JudgeTexts) :
         LET p == process_action(action, tool_result, evaluate_action(outcome), clock) IN
         /\ judge_calls' = Append(judge_calls,
                                  [cycle |-> cycle_number, tool_result |-> tool_result,
                                   history |-> history, kind |-> outcome.kind,
                                   exc |-> outcome.exc, text |-> outcome.text])
         /\ IF outcome.kind = "raise" /\ ~evaluate_action_catches(outcome.exc)
            THEN /\ loop_exit' = main_except(outcome.exc)
                 /\ pc' = "after_loop"
                 /\ UNCHANGED <<usage_history, percept, history, clock>>
            ELSE /\ usage_history' = IF judge_tracks(outcome)
                                     THEN track_usage(usage_history,
                                                      _construct_evaluation_prompt(history, tool_result),
                                                      outcome.text, "judge")
                                     ELSE usage_history
                 /\ percept' = p
                 /\ history' = add_percept(history, cycle_number, p)
                 /\ clock' = clock + 1
                 /\ pc' = "loop"
                 /\ UNCHANGED loop_exit
    /\ UNCHANGED component_calls
    /\ UNCHANGED <<config_error, max_cycles, cycle, cycle_number, total_actions, action,
                   tool_result, ideator_calls, tool_invocations, overall_calls,
                   start_time, run_end>>

\* the positions of main inside the try block of lines 148-175
InCycle == {"select", "dispatch", "evaluate"}

\* KeyboardInterrupt between two calls: inside a cycle lines 176-178 break the
\* loop; anywhere else it is no Exception and leaves main uncaught
Interrupt ==
    /\ pc \in InCycle \cup {"loop", "after_loop", "save"}
    /\ IF pc \in InCycle
       THEN /\ loop_exit' = main_except("KeyboardInterrupt")
            /\ pc' = "after_loop"
            /\ UNCHANGED exit_code
       ELSE /\ pc' = "aborted"
            /\ exit_code' = "KeyboardInterrupt"
            /\ UNCHANGED loop_exit
    /\ UNCHANGED component_calls
    /\ UNCHANGED <<config_error, max_cycles, cycle, agent_state, cycle_locals, clock, usage_history,
                   call_logs, start_time, end_time, overall_evaluation, transcript,
                   report>>

\* lines 179-181: an Exception raised by a statement of the cycle itself (a print
\* to a closed stdout) breaks the loop
CycleException ==
    /\ pc \in InCycle
    /\ loop_exit' = main_except("Exception")
    /\ pc' = "after_loop"
    /\ UNCHANGED component_calls
    /\ UNCHANGED <<config_error, max_cycles, cycle, agent_state, cycle_locals, clock, usage_history,
                   call_logs, start_time, run_end>>

\* lines 183-199: end time and the whole-run evaluation
Overall ==
    /\ pc = "after_loop"
    /\ end_time' = clock
    /\ clock' = clock + 1
    /\ \E outcome \in ModelOutcomes(JudgeTexts) :
         /\ overall_calls' =
              Append(overall_calls,
                     [history |-> get_formatted_history(history, cycle_number),
                      kind |-> outcome.kind, exc |-> outcome.exc, text |-> outcome.text])
         /\ IF outcome.kind = "raise" /\ ~evaluate_overall_catches(outcome.exc)
            THEN \* lines 235-237 catch an Exception; KeyboardInterrupt leaves main
                 /\ pc' = IF outcome.exc = "Exception" THEN "done" ELSE "aborted"
                 /\ report' = IF outcome.exc = "Exception" THEN "Fatal error" ELSE report
                 /\ exit_code' = IF outcome.exc = "Exception" THEN "1" ELSE outcome.exc
                 /\ UNCHANGED <<overall_evaluation, usage_history>>
            ELSE /\ overall_evaluation' = evaluate_overall_performance(outcome)
                 /\ usage_history' = IF judge_tracks(outcome)
                                     THEN track_usage(usage_history, overall_prompt(history),
                                                      outcome.text, "judge_overall")
                                     ELSE usage_history
                 /\ pc' = "save"
                 /\ UNCHANGED <<report, exit_code>>
    /\ UNCHANGED component_calls
    /\ UNCHANGED <<config_error, max_cycles, cycle, agent_state, cycle_locals, loop_exit,
                   ideator_calls, tool_invocations, judge_calls, start_time,
                   transcript>>

\* what save_history and save_usage_report can do
SaveOutcomes == {"saved", "save_history raises", "save_usage_report raises"}

\* mutant: the file is opened and nothing is written to the directory
save_history_drops(files, history_content, outcome) == files

\* lines 45-69: save_history writes one new file, or raises
save_history(files, history_content, outcome) ==
    IF outcome = "save_history raises" THEN files ELSE Append(files, history_content)

\* lines 201-239: the transcript is written and main returns
Save ==
    /\ pc = "save"
    /\ \E outcome \in SaveOutcomes :
         /\ transcript' =
              save_history(transcript,
                           [history |-> get_formatted_history(history, cycle_number),
                            overall_evaluation |-> overall_evaluation,
                            start_time |-> start_time, end_time |-> end_time,
                            cycles_completed |-> cycle_number,
                            total_actions |-> total_actions,
                            total_calls |-> Len(usage_history)],
                           outcome)
         /\ report' = IF outcome = "saved" THEN "completed successfully"
                      ELSE "Fatal error"
         /\ exit_code' = IF outcome = "saved" THEN "0" ELSE "1"
    /\ pc' = "done"
    /\ UNCHANGED component_calls
    /\ UNCHANGED <<config_error, max_cycles, cycle, agent_state, cycle_locals, clock, usage_history,
                   loop_exit, call_logs, start_time, end_time, overall_evaluation>>

Next ==
    \/ Startup
    \/ LoopNext
    \/ Select
    \/ Dispatch
    \/ Evaluate
    \/ Interrupt
    \/ CycleException
    \/ Overall
    \/ Save

Spec == Init /\ [][Next]_vars

\* the statements of main: each returns control once its external call has
\* returned or raised, so main takes its next step; the interrupt of the user
\* and an Exception of a print may happen and need not
MainStep ==
    \/ Startup
    \/ LoopNext
    \/ Select
    \/ Dispatch
    \/ Evaluate
    \/ Overall
    \/ Save

FairSpec == Spec /\ WF_vars(MainStep)

(***************************************************************************)
(* FileSystemSubenvironment (src/subenvironments/file_system.py)           *)
(*                                                                         *)
(* A location is the sequence of the names from the root to it.  The disk  *)
(* has regular files and directories and no symbolic links.  The process   *)
(* runs in /home, so that "Working Directory" is /home/wd.                 *)
(***************************************************************************)
\* Largest number of names in a requested path.
MaxPathLen == 3

\* the names a requested path is made of; ".." is the parent directory
PathNames == {"..", "home", "wd", "a", "d", "notes", "passwd"}

BoundedSeq(S, n) == UNION {[1..k -> S] : k \in 0..n}

\* the "path" field of a request: a leading "/" makes it absolute
RequestPaths == [absolute : BOOLEAN, parts : BoundedSeq(PathNames, MaxPathLen)]

\* line 25: Path("Working Directory").resolve()
working_directory == <<"home", "wd">>

\* Path.resolve of a location without symbolic links: ".." drops the last name
\* and stays at the root
RECURSIVE normalise(_, _)
normalise(at, parts) ==
    IF parts = <<>> THEN at
    ELSE normalise(IF Head(parts) = ".."
                   THEN IF at = <<>> THEN at ELSE SubSeq(at, 1, Len(at) - 1)
                   ELSE Append(at, Head(parts)),
                   Tail(parts))

\* line 43: (self.working_directory / path).resolve(); an absolute path
\* replaces the working directory
resolve(path) ==
    normalise(IF path.absolute THEN <<>> ELSE working_directory, path.parts)

\* line 47: PurePath.relative_to succeeds when base is a leading part of location
relative_to(location, base) ==
    Len(base) <= Len(location) /\ SubSeq(location, 1, Len(base)) = base

\* mutant: the requested location is accepted as soon as the path is relative
_safe_path_trusts_relative(path) ==
    [ok |-> ~path.absolute, location |-> resolve(path)]

\* lines 29-51: the resolved location, or ValueError (ok = FALSE)
_safe_path(path) ==
    [ok |-> relative_to(resolve(path), working_directory), location |-> resolve(path)]

is_file(d, location) == \E f \in d.files : f.location = location
is_dir(d, location) == location \in d.dirs
exists(d, location) == is_file(d, location) \/ is_dir(d, location)
content_of(d, location) == (CHOOSE f \in d.files : f.location = location).content

\* the directories above a location, the root included
parents(location) == {SubSeq(location, 1, k) : k \in 0..Len(location) - 1}

\* what a method returns: the disk it leaves and its text
Returned(files, dirs, text) == [files |-> files, dirs |-> dirs, text |-> text]

Outside == <<"is outside working directory">>

\* lines 53-78
read_file(d, path) ==
    LET safe_path == _safe_path(path) IN
    IF ~safe_path.ok
    THEN Returned(d.files, d.dirs, <<"ERROR: ", "Failed to read file">> \o Outside)
    ELSE IF ~exists(d, safe_path.location)
    THEN Returned(d.files, d.dirs, <<"ERROR: ", "File does not exist">>)
    ELSE IF ~is_file(d, safe_path.location)
    THEN Returned(d.files, d.dirs, <<"ERROR: ", "is not a file">>)
    ELSE Returned(d.files, d.dirs,
                  <<"SUCCESS: ", "Read file", content_of(d, safe_path.location)>>)

\* lines 80-103: the parent directories are made, then the file is opened for
\* writing; mkdir fails on a parent that is a file, open fails on a directory
write_file(d, path, content) ==
    LET safe_path == _safe_path(path) IN
    IF ~safe_path.ok
    THEN Returned(d.files, d.dirs, <<"ERROR: ", "Failed to write file">> \o Outside)
    ELSE IF \E above \in parents(safe_path.location) : is_file(d, above)
    THEN Returned(d.files, d.dirs,
                  <<"ERROR: ", "Failed to write file", "Not a directory">>)
    ELSE IF is_dir(d, safe_path.location)
    THEN Returned(d.files, d.dirs \cup parents(safe_path.location),
                  <<"ERROR: ", "Failed to write file", "Is a directory">>)
    ELSE Returned({f \in d.files : f.location # safe_path.location}
                      \cup {[location |-> safe_path.location, content |-> content]},
                  d.dirs \cup parents(safe_path.location),
                  <<"SUCCESS: ", "Wrote characters to file">>)

\* lines 105-139
list_files(d, path) ==
    LET safe_path == _safe_path(path) IN
    IF ~safe_path.ok
    THEN Returned(d.files, d.dirs, <<"ERROR: ", "Failed to list directory">> \o Outside)
    ELSE IF ~exists(d, safe_path.location)
    THEN Returned(d.files, d.dirs, <<"ERROR: ", "Directory does not exist">>)
    ELSE IF ~is_dir(d, safe_path.location)
    THEN Returned(d.files, d.dirs, <<"ERROR: ", "is not a directory">>)
    ELSE IF \E item \in d.dirs \cup {f.location : f \in d.files} :
               Len(item) = Len(safe_path.location) + 1
               /\ relative_to(item, safe_path.location)
    THEN Returned(d.files, d.dirs, <<"SUCCESS: ", "Contents of directory">>)
    ELSE Returned(d.files, d.dirs, <<"SUCCESS: ", "Directory is empty">>)

\* lines 141-166
file_exists(d, path) ==
    LET safe_path == _safe_path(path) IN
    IF ~safe_path.ok
    THEN Returned(d.files, d.dirs, <<"ERROR: ", "Failed to check path">> \o Outside)
    ELSE IF is_file(d, safe_path.location)
    THEN Returned(d.files, d.dirs, <<"SUCCESS: ", "File exists">>)
    ELSE IF is_dir(d, safe_path.location)
    THEN Returned(d.files, d.dirs, <<"SUCCESS: ", "Directory exists">>)
    ELSE Returned(d.files, d.dirs, <<"SUCCESS: ", "Path does not exist">>)

\* mutant: a directory is removed with all that is below it
delete_file_removes_tree(d, path) ==
    LET safe_path == _safe_path(path) IN
    IF ~safe_path.ok
    THEN Returned(d.files, d.dirs, <<"ERROR: ", "Failed to delete file">> \o Outside)
    ELSE IF ~exists(d, safe_path.location)
    THEN Returned(d.files, d.dirs, <<"ERROR: ", "File does not exist">>)
    ELSE Returned({f \in d.files : ~relative_to(f.location, safe_path.location)},
                  d.dirs, <<"SUCCESS: ", "Deleted file">>)

\* lines 168-191
delete_file(d, path) ==
    LET safe_path == _safe_path(path) IN
    IF ~safe_path.ok
    THEN Returned(d.files, d.dirs, <<"ERROR: ", "Failed to delete file">> \o Outside)
    ELSE IF ~exists(d, safe_path.location)
    THEN Returned(d.files, d.dirs, <<"ERROR: ", "File does not exist">>)
    ELSE IF ~is_file(d, safe_path.location)
    THEN Returned(d.files, d.dirs, <<"ERROR: ", "is not a file">>)
    ELSE Returned({f \in d.files : f.location # safe_path.location}, d.dirs,
                  <<"SUCCESS: ", "Deleted file">>)

\* the "action" values of lines 221-231, and one that is none of them
FileSystemActions == {"read_file", "write_file", "list_files", "file_exists", "delete_file"}

\* the input_body of a file_system action: text that is no JSON, or a JSON
\* object with its "action", "path" and "content" ("" when absent)
FileSystemRequests ==
    [json : {FALSE}, action : {"read_file"}, path : {[absolute |-> FALSE, parts |-> <<>>]},
     content : {""}]
        \cup [json : {TRUE}, action : FileSystemActions \cup {"chmod"},
              path : RequestPaths, content : {"", "new"}]

\* lines 195-239: the constructor makes the working directory (line 27), then
\* the request is parsed and dispatched
process_file_system_action(d, request) ==
    LET fs == [files |-> d.files, dirs |-> d.dirs \cup {working_directory}] IN
    IF ~request.json
    THEN Returned(fs.files, fs.dirs, <<"ERROR: ", "Invalid JSON input">>)
    ELSE IF request.action = "read_file" THEN read_file(fs, request.path)
    ELSE IF request.action = "write_file"
    THEN IF request.content = ""
         THEN Returned(fs.files, fs.dirs,
                       <<"ERROR: ", "'content' field is required for write_file action">>)
         ELSE write_file(fs, request.path, request.content)
    ELSE IF request.action = "list_files" THEN list_files(fs, request.path)
    ELSE IF request.action = "file_exists" THEN file_exists(fs, request.path)
    ELSE IF request.action = "delete_file" THEN delete_file(fs, request.path)
    ELSE Returned(fs.files, fs.dirs, <<"ERROR: ", "Unknown action">>)

\* the disks a call starts on: files in and around the working directory,
\* and a fresh checkout where the working directory does not exist yet
InitialDisks ==
    { [files |-> { [location |-> <<"home", "wd", "a">>, content |-> "old"],
                   [location |-> <<"home", "wd", "d", "a">>, content |-> "old"],
                   [location |-> <<"home", "notes">>, content |-> "old"],
                   [location |-> <<"passwd">>, content |-> "old"] },
       dirs |-> { <<>>, <<"home">>, <<"home", "wd">>, <<"home", "wd", "d">>,
                  <<"home", "d">> }],
      [files |-> { [location |-> <<"home", "notes">>, content |-> "old"],
                   [location |-> <<"passwd">>, content |-> "old"] },
       dirs |-> { <<>>, <<"home">>, <<"home", "d">> }] }

FsInit ==
    /\ InitMain
    /\ disk \in {[called |-> FALSE, request |-> request, files |-> d.files,
                     dirs |-> d.dirs, text |-> <<>>] :
                    d \in InitialDisks, request \in FileSystemRequests}
    /\ execution = NoCall
    /\ parse = NoCall
    /\ feedback = NoCall

\* the orchestrator calls process_file_system_action with one input_body
FileSystemCall ==
    /\ ~disk.called
    /\ LET returned == process_file_system_action(disk, disk.request) IN
       disk' = [called |-> TRUE, request |-> disk.request, files |-> returned.files,
                dirs |-> returned.dirs, text |-> returned.text]
    /\ UNCHANGED <<main_vars, execution, parse, feedback>>

FsNext == FileSystemCall

FsSpec == FsInit /\ [][FsNext]_vars

(***************************************************************************)
(* CodeExecutorSubenvironment (src/subenvironments/code_executor.py) and   *)
(* WebSearchSubenvironment (src/subenvironments/web_search.py)             *)
(*                                                                         *)
(* Times are counted in tenths of a second, so that a JSON number such as  *)
(* 0.5 can be a "timeout".                                                 *)
(***************************************************************************)
\* data.get("timeout", 10), in seconds
DefaultTimeout == 10

\* the largest "timeout" accepted, in seconds
LargestTimeout == 60

\* timeout=10 of session.get, in seconds
SearchTimeout == 10

\* the "timeout" of a request: a JSON number, or a value that is no number
TimeoutValues ==
    {[number |-> FALSE, tenths |-> 0]}
        \cup [number : {TRUE},
              tenths : {-10, 0, 5, 10, 10 * DefaultTimeout, 10 * LargestTimeout,
                        10 * LargestTimeout + 5}]

\* the "code" of a request: blank or not, the dangerous pattern it contains
\* ("" for none), whether its execution ends by itself and after what time
Codes ==
    {[blank |-> TRUE, pattern |-> "", halts |-> TRUE, takes |-> 1]}
        \cup [blank : {FALSE}, pattern : {"", "import os"}, halts : {TRUE},
              takes : {1, 20, 10 * LargestTimeout + 100}]
        \cup [blank : {FALSE}, pattern : {"", "import os"}, halts : {FALSE},
              takes : {1}]

\* a result of the adapter: the text returned (returns = FALSE when the call
\* never comes back), whether the code was run, and the timeouts that
\* execute_python was called with
Rejected(text) == [returns |-> TRUE, executed |-> FALSE, ran_with |-> {}, text |-> text]

\* method "safe", lines 79-146: the pattern check, then exec(code) in this
\* process; the timeout parameter is not used
execute_python_safe(code, timeout) ==
    IF code.pattern # ""
    THEN [returns |-> TRUE, executed |-> FALSE, ran_with |-> {timeout},
          text |-> <<"ERROR: ", "Potentially dangerous code pattern detected: ", code.pattern>>]
    ELSE IF ~code.halts
    THEN [returns |-> FALSE, executed |-> TRUE, ran_with |-> {timeout}, text |-> <<>>]
    ELSE [returns |-> TRUE, executed |-> TRUE, ran_with |-> {timeout},
          text |-> <<"SUCCESS: ", "Code executed">>]

\* method "subprocess", lines 148-200: the code is written to a file and run
\* by subprocess.run(..., timeout=timeout); no pattern is looked for
execute_python_subprocess(code, timeout) ==
    IF ~code.halts \/ code.takes > 10 * timeout
    THEN [returns |-> TRUE, executed |-> TRUE, ran_with |-> {timeout},
          text |-> <<"ERROR: ", "Code execution timed out after ", timeout>>]
    ELSE [returns |-> TRUE, executed |-> TRUE, ran_with |-> {timeout},
          text |-> <<"SUCCESS: ", "Code executed">>]

\* lines 202-222
execute_python(code, method, timeout) ==
    IF method = "safe" THEN execute_python_safe(code, timeout)
    ELSE IF method = "subprocess" THEN execute_python_subprocess(code, timeout)
    ELSE [returns |-> TRUE, executed |-> FALSE, ran_with |-> {timeout},
          text |-> <<"ERROR: ", "Unknown execution method">>]

\* the input_body of a code_executor action
CodeExecutionRequests ==
    [json : {FALSE}, code : {[blank |-> TRUE, pattern |-> "", halts |-> TRUE, takes |-> 1]},
     method : {"safe"}, timeout : {[number |-> TRUE, tenths |-> 10 * DefaultTimeout]}]
        \cup [json : {TRUE}, code : Codes, method : {"safe", "subprocess", "docker"},
              timeout : TimeoutValues]

\* line 255: the timeout is a number, above 0 and at most 60
timeout_accepted(timeout) ==
    timeout.number /\ ~(timeout.tenths <= 0) /\ ~(timeout.tenths > 10 * LargestTimeout)

\* lines 226-263; int(timeout) drops the fraction
process_code_execution_action(request) ==
    IF ~request.json
    THEN Rejected(<<"ERROR: ", "Invalid JSON input">>)
    ELSE IF request.code.blank
    THEN Rejected(<<"ERROR: ", "'code' field is required and cannot be empty">>)
    ELSE IF ~timeout_accepted(request.timeout)
    THEN Rejected(<<"ERROR: ", "'timeout' must be a number between 1 and 60 seconds">>)
    ELSE execute_python(request.code, request.method, request.timeout.tenths \div 10)

\* a search request: the query is blank or not; the search API answers after
\* some time, or sends nothing
WebSearchRequests == [blank : BOOLEAN, answers : BOOLEAN, takes : {1, 10 * SearchTimeout + 100}]

\* web_search.py lines 36-49 and 113-114
search(request) ==
    IF request.blank
    THEN Rejected(<<"ERROR: ", "Search query cannot be empty">>)
    ELSE IF ~request.answers \/ request.takes > 10 * SearchTimeout
    THEN Rejected(<<"ERROR: ", "Search request timed out for query">>)
    ELSE [returns |-> TRUE, executed |-> FALSE, ran_with |-> {},
          text |-> <<"SUCCESS: ", "Search results">>]

ExecInit ==
    /\ InitMain
    /\ disk = NoCall
    /\ execution \in
         {[called |-> FALSE, adapter |-> "code_executor", request |-> request,
           returns |-> FALSE, executed |-> FALSE, ran_with |-> {}, text |-> <<>>] :
              request \in CodeExecutionRequests}
           \cup {[called |-> FALSE, adapter |-> "web_search", request |-> request,
                  returns |-> FALSE, executed |-> FALSE, ran_with |-> {}, text |-> <<>>] :
                     request \in WebSearchRequests}
    /\ parse = NoCall
    /\ feedback = NoCall

\* the orchestrator calls process_code_execution_action
CodeExecutionCall ==
    /\ ~execution.called
    /\ execution.adapter = "code_executor"
    /\ LET result == process_code_execution_action(execution.request) IN
       execution' = [execution EXCEPT !.called = TRUE, !.returns = result.returns,
                                      !.executed = result.executed,
                                      !.ran_with = result.ran_with,
                                      !.text = result.text]
    /\ UNCHANGED <<main_vars, disk, parse, feedback>>

\* the orchestrator calls process_web_search_action
WebSearchCall ==
    /\ ~execution.called
    /\ execution.adapter = "web_search"
    /\ LET result == search(execution.request) IN
       execution' = [execution EXCEPT !.called = TRUE, !.returns = result.returns,
                                      !.executed = result.executed,
                                      !.ran_with = result.ran_with,
                                      !.text = result.text]
    /\ UNCHANGED <<main_vars, disk, parse, feedback>>

ExecNext ==
    \/ CodeExecutionCall
    \/ WebSearchCall

ExecSpec == ExecInit /\ [][ExecNext]_vars

(***************************************************************************)
(* Ideator._parse_response on the responses of the primary model          *)
(***************************************************************************)
\* Largest number of tokens in the reasoning text of a response.
MaxReasoningLen == 2

\* what a reasoning text is made of: words, the markers of the response
\* format, blanks and line breaks
ReasoningTokens == {"why", "ACTION:", "subenvironment:", "input_body:", " ", "\n"}

\* Largest number of tokens in a response that follows no format.
MaxResponseLen == 4

\* what such a response is made of
ResponseTokens ==
    {"REASONING:", "ACTION:", "subenvironment:", "input_body:", "file_system", "{}",
     "{bad", "\n"}

\* the tool names a response asks for
RequestedTools == {"file_system", "query_human"}

\* the object json.loads makes of a JSON document, as its set of members
json_loads(body) ==
    IF body = <<"{}">> THEN {}
    ELSE IF body = <<"{\"action\": \"list_files\"}">> THEN {<<"action", "list_files">>}
    ELSE {<<"JSONDecodeError", "">>}

\* the response format of the prompt, agent.py lines 105-119:
\* REASONING: <text>, then ACTION: with a line "subenvironment: X" and a
\* line "input_body: <JSON>"
WellFormedResponse(reasoning, tool, document) ==
    <<"REASONING:", " ">> \o reasoning
        \o <<"\n", "ACTION:", "\n", "subenvironment:", " ", tool, "\n",
             "input_body:", " ", document>>

ParseInit ==
    /\ InitMain
    /\ disk = NoCall
    /\ execution = NoCall
    /\ parse \in
         {[called |-> FALSE, well_formed |-> TRUE, reasoning |-> r, tool |-> x,
           document |-> j, response_text |-> WellFormedResponse(r, x, j),
           action |-> None, error |-> <<>>] :
             r \in BoundedSeq(ReasoningTokens, MaxReasoningLen), x \in RequestedTools,
             j \in JsonDocuments}
           \cup {[called |-> FALSE, well_formed |-> FALSE, reasoning |-> <<>>, tool |-> "",
                  document |-> "", response_text |-> t, action |-> None,
                  error |-> <<>>] :
                    t \in (IdeatorTexts \ {<<>>})
                              \cup BoundedSeq(ResponseTokens, MaxResponseLen)}
    /\ feedback = NoCall

\* choose_action hands response.text to _parse_response (agent.py line 203)
ParseCall ==
    /\ ~parse.called
    /\ LET parsed == _parse_response(parse.response_text, 0) IN
       parse' = [parse EXCEPT !.called = TRUE, !.action = parsed.action,
                              !.error = parsed.error]
    /\ UNCHANGED <<main_vars, disk, execution, feedback>>

ParseNext == ParseCall

ParseSpec == ParseInit /\ [][ParseNext]_vars

(***************************************************************************)
(* AgentState.history as the text it is, and get_last_judge_feedback       *)
(***************************************************************************)
\* Largest number of tokens in a judge response.
MaxEssayLen == 3

\* what a judge response is made of
EssayTokens == {"Good", Marker, "\n", Separator}

\* the result texts of a tool
ToolTexts ==
    { <<"SUCCESS: ", "done">>,
      <<"SUCCESS: ", "Read file", "\n", Marker, " ", "none">>,
      <<"SUCCESS: ", "Read file", "\n", Separator>> }

\* the history after one or two whole cycles whose last Percept carries the
\* tool result and the feedback made of the judge response
HistoryOf(cycles, result, judge_text) ==
    LET act == Action(<<"file_system">>, <<"{}">>, <<"why">>, 1)
        first == add_percept(add_action(<<>>, 1, act), 1,
                             Percept(<<"SUCCESS: ", "done">>, <<"Good">>, act, 2))
        before == IF cycles = 2 THEN first ELSE <<>>
        essay == evaluate_action([kind |-> "text", text |-> judge_text, exc |-> "",
                                  msg |-> <<>>])
    IN add_percept(add_action(before, cycles, act), cycles,
                   Percept(result, essay, act, 3))

FeedbackInit ==
    /\ InitMain
    /\ disk = NoCall
    /\ execution = NoCall
    /\ parse = NoCall
    /\ feedback \in
         {[called |-> FALSE, history |-> <<>>, result |-> <<>>]}
           \cup {[called |-> FALSE, history |-> HistoryOf(n, r, j), result |-> <<>>] :
                    n \in 1..2, r \in ToolTexts,
                    j \in BoundedSeq(EssayTokens, MaxEssayLen)}

\* _construct_prompt asks for the last feedback (agent.py lines 88-96)
FeedbackCall ==
    /\ ~feedback.called
    /\ feedback' = [feedback EXCEPT !.called = TRUE,
                        !.result = get_last_judge_feedback(history_text(feedback.history))]
    /\ UNCHANGED <<main_vars, disk, execution, parse>>

FeedbackNext == FeedbackCall

FeedbackSpec == FeedbackInit /\ [][FeedbackNext]_vars

(***************************************************************************)
(* Properties of the cycle loop                                            *)
(***************************************************************************)
Last(s) == s[Len(s)]

\* the text contains the token
contains(t, k) == \E i \in 1..Len(t) : t[i] = k

NumKind(h, kind) == Cardinality({i \in DOMAIN h : h[i].kind = kind})

HasAction(k) == \E i \in DOMAIN history : history[i].kind = "ACTION" /\ history[i].cycle = k

HasPercept(k) == \E i \in DOMAIN history : history[i].kind = "PERCEPT" /\ history[i].cycle = k

\* the tool function was called in cycle k
Dispatched(k) == \E i \in DOMAIN tool_invocations : tool_invocations[i].cycle = k

\* the per-action judge was called in cycle k
Judged(k) == \E i \in DOMAIN judge_calls : judge_calls[i].cycle = k

\* the per-action judge was called in cycle k and its call came back
JudgeCompleted(k) ==
    \E i \in DOMAIN judge_calls :
        judge_calls[i].cycle = k /\ judge_calls[i].exc # "KeyboardInterrupt"

\* the loop is at a cycle boundary (the head of the for loop) or has stopped
AtBoundaryOrStopped == pc \in {"loop", "after_loop", "save", "done", "aborted"}

Stopped == pc \in {"after_loop", "save", "done", "aborted"}

\* C1: at a cycle boundary or once the loop has stopped, every cycle has both its
\* Action and its Percept in the history or neither, and an Action is in the
\* history only when the dispatch and the judge evaluation of its cycle completed.
C1_AtomicCycleCommit ==
    AtBoundaryOrStopped =>
        \A k \in 1..MaxCycles :
            /\ HasAction(k) <=> HasPercept(k)
            /\ HasAction(k) => JudgeCompleted(k)

Alternates(h) ==
    \A i \in DOMAIN h : h[i].kind = (IF i % 2 = 1 THEN "ACTION" ELSE "PERCEPT")

\* C2: at a cycle boundary, after max_cycles and after a selector failure, with
\* cycle_number = N the history holds exactly 2N entries, N actions and N
\* percepts, alternating action, percept, action, percept, ...
C2_HistorySizeAlternation ==
    (AtBoundaryOrStopped /\ loop_exit \in {"none", "max_cycles", "selector_failed"}) =>
        /\ Len(history) = 2 * cycle_number
        /\ NumKind(history, "ACTION") = cycle_number
        /\ NumKind(history, "PERCEPT") = cycle_number
        /\ Alternates(history)

\* a step appends a Percept block to the history
AppendsPercept ==
    /\ Len(history') = Len(history) + 1
    /\ Last(history').kind = "PERCEPT"

\* C3: whenever a Percept is appended to the history, the entry before it is an
\* Action, and the Percept's action_reference is that Action.
C3_CausalOrdering ==
    [][AppendsPercept =>
          /\ Len(history) > 0
          /\ Last(history).kind = "ACTION"
          /\ SubSeq(history', 1, Len(history)) = history
          /\ Last(history) = Last(add_action(<<>>, Last(history').cycle,
                                             percept'.action_reference))
          /\ Last(history') = Last(add_percept(<<>>, cycle_number, percept'))]_vars

\* C3 witness: the second cycle's Percept was appended after a different first cycle.
C3_Witness ==
    /\ Len(history) = 4
    /\ history[4].kind = "PERCEPT"
    /\ percept.action_reference.timestamp = history[3].timestamp
    /\ history[3].subenvironment # history[1].subenvironment

\* choose_action returned a failure for this model call
SelectorFailed(c) ==
    \/ c.kind = "raise" /\ c.exc = "Exception"
    \/ c.kind = "text" /\ c.text = <<>>
    \/ c.kind = "text" /\ _parse_response(c.text, 0).error # <<>>

\* C4: a selection that failed in cycle k is the last selection of the run: the
\* loop has stopped as selector_failed, cycle k has no Action or Percept in the
\* history, no tool was called and the judge was not called in cycle k, and no
\* later cycle was started.
C4_SelectorFailureHalts ==
    \A i \in DOMAIN ideator_calls :
        SelectorFailed(ideator_calls[i]) =>
            LET k == ideator_calls[i].cycle IN
            /\ i = Len(ideator_calls)
            /\ cycle_number = k /\ cycle = k
            /\ Stopped
            /\ loop_exit = "selector_failed"
            /\ ~HasAction(k) /\ ~HasPercept(k)
            /\ ~Dispatched(k) /\ ~Judged(k)
            /\ total_actions = k - 1

\* C4 witness: the selector failed on a parse failure in the second cycle.
C4_Witness ==
    /\ pc = "done"
    /\ loop_exit = "selector_failed"
    /\ Len(ideator_calls) = 2
    /\ ideator_calls[2].kind = "text" /\ ideator_calls[2].text # <<>>
    /\ Len(history) = 2

\* C5: a run that stopped on a selector failure does not end with the success
\* outcome: main does not return 0 and does not report a successful completion.
C5_SelectorFailureUnsuccessful ==
    (pc = "done" /\ loop_exit = "selector_failed") =>
        /\ exit_code # "0"
        /\ report # "completed successfully"

\* C6: cycle_number equals the number of Percept entries of the history, and the
\* Cycles Completed value of a written transcript equals the number of Percept
\* entries it holds.
C6_CycleCounterAfterPercept ==
    /\ cycle_number = NumKind(history, "PERCEPT")
    /\ \A i \in DOMAIN transcript :
           transcript[i].cycles_completed
               = NumKind(transcript[i].history.blocks, "PERCEPT")

\* the text names the unknown subenvironment and every registered one
NamesUnknownAndAvailable(t, act) ==
    /\ t # <<>> /\ t[1] = "ERROR: Unknown subenvironment '"
    /\ \A i \in DOMAIN act.subenvironment : contains(t, act.subenvironment[i])
    /\ \A i \in DOMAIN SUBENVIRONMENTS : contains(t, SUBENVIRONMENTS[i])

\* a step in which the per-action judge is called and its call comes back
JudgeReturns ==
    /\ pc = "evaluate"
    /\ Len(judge_calls') = Len(judge_calls) + 1
    /\ Last(judge_calls').exc # "KeyboardInterrupt"

\* the step records tool_result in a Percept and returns to the head of the loop
PerceptRecorded ==
    /\ Last(judge_calls').tool_result = tool_result
    /\ AppendsPercept
    /\ Last(history').tool_result = tool_result
    /\ percept'.tool_result = tool_result
    /\ pc' = "loop"
    /\ loop_exit' = "none"

\* the head of the loop starts the next cycle while cycle < max_cycles
NextCycleStarts ==
    (pc = "loop" /\ pc' \notin {"loop", "aborted"} /\ cycle < max_cycles) =>
        /\ pc' = "select"
        /\ cycle' = cycle + 1
        /\ loop_exit' = "none"

\* C7: for an action whose subenvironment is no key of the registry, dispatch calls
\* no tool function and yields an error text naming the unknown name and every
\* registered name; the judge is called with that text, the Percept holding it is
\* appended, and the loop goes back to its head and on to the next cycle.
C7_UnknownToolIsObservation ==
    [][/\ (pc = "dispatch" /\ ~registered(action.subenvironment) /\ pc' = "evaluate") =>
              /\ tool_invocations' = tool_invocations
              /\ NamesUnknownAndAvailable(tool_result', action)
              /\ loop_exit' = "none"
       /\ (pc = "evaluate" /\ ~registered(action.subenvironment)) =>
              /\ NamesUnknownAndAvailable(tool_result, action)
              /\ ~Dispatched(cycle_number)
       /\ (JudgeReturns /\ ~registered(action.subenvironment)) => PerceptRecorded
       /\ (~registered(action.subenvironment)) => NextCycleStarts]_vars

\* C7 witness: the first cycle named an unregistered tool, its Percept holds the
\* error text, and the second cycle has started.
C7_Witness ==
    /\ pc = "select" /\ cycle_number = 2
    /\ Len(history) = 2
    /\ ~registered(history[1].subenvironment)
    /\ history[2].kind = "PERCEPT"
    /\ NamesUnknownAndAvailable(history[2].tool_result, action)
    /\ tool_invocations = <<>>

\* a step in which a registered tool function is called and returns or raises an
\* Exception
ToolReturnsOrFails ==
    /\ pc = "dispatch"
    /\ Len(tool_invocations') = Len(tool_invocations) + 1
    /\ Last(tool_invocations').exc # "KeyboardInterrupt"

\* C8: whatever a registered tool function does with the payload, return a text or
\* raise an Exception, dispatch yields a result text and nothing leaves the
\* orchestrator; the judge is called with that text, the Percept holding it is
\* appended and the loop goes on as after a successful call.
C8_ToolFailureNotFatal ==
    [][/\ ToolReturnsOrFails =>
              /\ registered(action.subenvironment)
              /\ pc' = "evaluate"
              /\ loop_exit' = "none"
              /\ tool_result' # <<>>
              /\ Last(tool_invocations').kind = "return" =>
                     tool_result' = Last(tool_invocations').text
              /\ Last(tool_invocations').kind = "raise" =>
                     /\ tool_result'[1] = "ERROR: Subenvironment '"
                     /\ \A i \in DOMAIN Last(tool_invocations').text :
                            contains(tool_result', Last(tool_invocations').text[i])
       /\ (JudgeReturns /\ registered(action.subenvironment)) => PerceptRecorded
       /\ registered(action.subenvironment) => NextCycleStarts]_vars

\* C8 witness: the tool function raised in the first cycle, the Percept holds the
\* error text and the second cycle has started.
C8_Witness ==
    /\ pc = "select" /\ cycle_number = 2
    /\ Len(tool_invocations) = 1
    /\ tool_invocations[1].kind = "raise" /\ tool_invocations[1].exc = "Exception"
    /\ Len(history) = 2
    /\ history[2].kind = "PERCEPT"
    /\ history[2].tool_result[1] = "ERROR: Subenvironment '"

\* the default feedback texts of evaluate_action
DefaultFeedback(t) ==
    /\ t # <<>>
    /\ t[1] \in {"ERROR: Judge evaluation failed: ",
                 "ERROR: No evaluation received from judge"}

\* C9: when the judge's model call raises an Exception or returns an empty text,
\* evaluate_action yields a default error feedback, the Percept carrying it is
\* appended and the loop returns to its head; no return of the judge stops the loop.
C9_JudgeFailureNotFatal ==
    [][/\ JudgeReturns =>
              /\ PerceptRecorded
              /\ Last(history').judge_essay = percept'.judge_essay
              /\ (Last(judge_calls').kind = "raise" \/ Last(judge_calls').text = <<>>)
                     <=> DefaultFeedback(percept'.judge_essay)
       /\ NextCycleStarts]_vars

\* C9 witness: the judge's model raised in the first cycle and returned an empty
\* text in the second, both Percepts carry a default feedback, and the third
\* cycle has started.
C9_Witness ==
    /\ pc = "select" /\ cycle_number = 3
    /\ Len(judge_calls) = 2
    /\ judge_calls[1].kind = "raise" /\ judge_calls[1].exc = "Exception"
    /\ judge_calls[2].kind = "text" /\ judge_calls[2].text = <<>>
    /\ Len(history) = 4
    /\ DefaultFeedback(history[2].judge_essay)
    /\ DefaultFeedback(history[4].judge_essay)

\* the response names a subenvironment and has an input_body that is empty or blank
BlankPayload(text) ==
    LET a == find(text, "ACTION:")
        action_text == strip(after(text, a))
        s == find(action_text, "subenvironment:")
        b == find(action_text, "input_body:")
    IN /\ a # 0
       /\ s # 0 /\ s # Len(action_text)
       /\ b # 0
       /\ strip(after(action_text, b)) = <<>>

\* C10: an action with an empty or blank payload is never passed to a tool
\* function and does not stop the run: the loop is not halted by it.
C10_EmptyPayloadRecoverable ==
    \A i \in DOMAIN ideator_calls :
        (ideator_calls[i].kind = "text" /\ BlankPayload(ideator_calls[i].text)) =>
            /\ ~Dispatched(ideator_calls[i].cycle)
            /\ ~(i = Len(ideator_calls) /\ Stopped /\ loop_exit = "selector_failed")

(***************************************************************************)
(* The end of a run                                                        *)
(***************************************************************************)
\* main has returned, or an exception has left it
Terminated == pc \in {"done", "aborted"}

\* a KeyboardInterrupt was raised after the first cycle had begun
UserInterrupted ==
    cycle >= 1 /\ (loop_exit = "user_interrupt" \/ exit_code = "KeyboardInterrupt")

\* the transcript file was written once and holds every recorded history entry
TranscriptHoldsHistory ==
    /\ Len(transcript) = 1
    /\ transcript[1].history.blocks = history

\* C11: a run in which a user interrupt was raised after the loop had started
\* (during selection, dispatch, judge evaluation, the whole-run evaluation or
\* saving) ends with the transcript file written, holding every history entry
\* recorded so far; a run whose save_history itself failed is left aside.
C11_GracefulUserInterrupt ==
    (Terminated /\ UserInterrupted /\ report # "Fatal error") => TranscriptHoldsHistory

\* every call of a registered tool returned and every judge call returned
AllCallsReturned ==
    /\ \A i \in DOMAIN tool_invocations : tool_invocations[i].kind = "return"
    /\ \A i \in DOMAIN judge_calls : judge_calls[i].kind = "text"

\* the run went through all max_cycles cycles and main saved the transcript
FullRun ==
    /\ pc = "done"
    /\ max_cycles >= 1
    /\ loop_exit = "max_cycles"
    /\ AllCallsReturned
    /\ Len(transcript) = 1

\* the feedback string evaluate_action made of judge call c
JudgeFeedback(c) ==
    evaluate_action([kind |-> c.kind, text |-> c.text, exc |-> c.exc, msg |-> <<>>])

\* what the registered tool called in cycle k returned, if one was called
ToolReturned(k, result) ==
    \A i \in DOMAIN tool_invocations :
        tool_invocations[i].cycle = k => result = tool_invocations[i].text

\* C12: for every max_cycles = M >= 1, when every selection is valid and every
\* tool and judge call returns, the run ends with exactly 2M history entries,
\* cycle_number = M and total_actions = M, and the saved transcript holds the
\* M tool results and the M judge feedback strings in cycle order.
C12_FullRun ==
    FullRun =>
        /\ Len(history) = 2 * max_cycles
        /\ cycle_number = max_cycles
        /\ total_actions = max_cycles
        /\ Len(judge_calls) = max_cycles
        /\ Len(transcript[1].history.blocks) = 2 * max_cycles
        /\ \A k \in 1..max_cycles :
             LET entry == transcript[1].history.blocks[2 * k] IN
             /\ entry.kind = "PERCEPT"
             /\ entry.cycle = k
             /\ judge_calls[k].cycle = k
             /\ entry.tool_result = judge_calls[k].tool_result
             /\ ToolReturned(k, entry.tool_result)
             /\ entry.judge_essay = JudgeFeedback(judge_calls[k])

\* a full run of MaxCycles cycles in which a registered tool was called
C12_Witness ==
    FullRun /\ max_cycles = MaxCycles /\ Len(tool_invocations) >= 1

(***************************************************************************)
(* The control loop                                                        *)
(***************************************************************************)
\* choose_action returned an Action for this model call
SelectorSucceeded(c) == c.kind = "text" /\ ~SelectorFailed(c)

\* the number of logged calls made in cycle k
CallsIn(log, k) == Cardinality({i \in DOMAIN log : log[i].cycle = k})

\* the positions of main inside the for loop
InLoop == InCycle \cup {"loop"}

\* a step goes SELECT, DISPATCH, EVALUATE in this order inside one cycle:
\* SELECT opens a new cycle, DISPATCH follows a successful selection of the
\* same cycle, EVALUATE follows the return of that cycle's dispatch
StepsInOrder ==
    /\ (pc' = "select" /\ pc # "select") => pc = "loop" /\ cycle' = cycle + 1
    /\ (pc' = "dispatch" /\ pc # "dispatch") =>
            /\ pc = "select" /\ cycle' = cycle
            /\ Len(ideator_calls') = Len(ideator_calls) + 1
            /\ Last(ideator_calls').cycle = cycle_number'
            /\ SelectorSucceeded(Last(ideator_calls'))
    /\ (pc' = "evaluate" /\ pc # "evaluate") =>
            /\ pc = "dispatch" /\ cycle' = cycle
            /\ _route_invokes(action) =>
                   /\ Len(tool_invocations') = Len(tool_invocations) + 1
                   /\ Last(tool_invocations').cycle = cycle_number'
                   /\ Last(tool_invocations').kind = "return"
                         \/ _route_catches(Last(tool_invocations').exc)
    /\ (pc' = "loop" /\ pc \in InLoop \ {"loop"}) => pc = "evaluate"
    /\ pc \in InLoop => pc' \in InLoop \cup {"after_loop", "aborted"}

\* no step of a cycle is taken twice
StepsAtMostOnce ==
    \A k \in 1..MaxCycles + 1 :
        /\ CallsIn(ideator_calls', k) <= 1
        /\ CallsIn(tool_invocations', k) <= 1
        /\ CallsIn(judge_calls', k) <= 1

\* the step leaves the cycle sequence, and how
LeavesLoop == pc \in InLoop /\ pc' \notin InLoop

LeftBy(exits) ==
    \/ pc' = "after_loop" /\ loop_exit' \in exits
    \/ pc' = "aborted" /\ exit_code' = "KeyboardInterrupt" /\ "user_interrupt" \in exits

OverallReadsWholeHistory ==
    Len(overall_calls) >= 1 =>
        /\ loop_exit # "none"
        /\ pc \notin InLoop
        /\ overall_calls[1].history = get_formatted_history(history, cycle_number)

\* C14: the whole-run evaluation is invoked exactly once per run whose loop
\* started: never more than once, only after the loop has terminated, reading
\* the entire accumulated history, and on every path on which the run ends.
C14_WholeRunEvaluationOnce ==
    /\ Len(overall_calls) <= 1
    /\ OverallReadsWholeHistory
    /\ (Terminated /\ cycle >= 1) => Len(overall_calls) = 1

\* the transcript file was written after the whole-run evaluation and holds the
\* rendered history, every Action and Percept in insertion order, followed by
\* the run metadata
TranscriptComplete ==
    /\ pc = "done"
    /\ Len(overall_calls) = 1
    /\ transcript[1].history = get_formatted_history(history, cycle_number)
    /\ transcript[1].history.blocks = history
    /\ transcript[1].overall_evaluation = overall_evaluation
    /\ transcript[1].start_time = start_time
    /\ transcript[1].end_time = end_time
    /\ transcript[1].start_time < transcript[1].end_time
    /\ transcript[1].cycles_completed = cycle_number
    /\ transcript[1].total_actions = total_actions
    /\ transcript[1].total_calls = Len(usage_history)

\* main returned on the MAX_CYCLES_REACHED or SELECTOR_FAILED path: no user
\* interrupt was raised, and save_history did not fail
ReturnedWithoutInterrupt ==
    /\ pc = "done"
    /\ loop_exit \in {"max_cycles", "selector_failed"}
    /\ report # "Fatal error"

\* C15: on the MAX_CYCLES_REACHED and SELECTOR_FAILED paths the transcript file
\* is written exactly once, after the whole-run evaluation, and holds the full
\* rendered history followed by the run metadata (start and end time, cycle
\* count, total actions, token summary); after a selector failure the partial
\* transcript is still saved.
C15_TranscriptSaved ==
    /\ Len(transcript) <= 1
    /\ Len(transcript) = 1 => TranscriptComplete
    /\ ReturnedWithoutInterrupt => Len(transcript) = 1

\* a selector failure in a later cycle, and the partial transcript saved
C15_Witness ==
    /\ ReturnedWithoutInterrupt
    /\ loop_exit = "selector_failed"
    /\ Len(history) >= 2
    /\ Len(transcript) = 1

(***************************************************************************)
(* The history only grows                                                  *)
(***************************************************************************)
IsPrefix(s, t) == Len(s) <= Len(t) /\ SubSeq(t, 1, Len(s)) = s

\* C16: for every step of the system the history before the step is a prefix
\* of the history after it (nothing is removed, reordered, truncated or
\* rewritten), and cycle_number and total_actions never decrease.
C16_HistoryOnlyGrows ==
    [][ /\ IsPrefix(history, history')
        /\ cycle_number' >= cycle_number
        /\ total_actions' >= total_actions ]_vars

\* the history has grown by an Action and a Percept in each of MaxCycles cycles
C16_Witness ==
    /\ Len(history) = 2 * MaxCycles
    /\ cycle_number = MaxCycles
    /\ total_actions = MaxCycles

(***************************************************************************)
(* Configuration                                                           *)
(***************************************************************************)
\* C17: when the project identifier is missing or the constitution file does
\* not exist, main ends with a failure status before any cycle: no selector
\* call, no tool dispatch, no judge call and no transcript write happen.
C17_ConfigFailureFatal ==
    config_error # "none" =>
        /\ pc = "done"
        /\ exit_code = "1"
        /\ report = "Fatal error"
        /\ cycle = 0 /\ cycle_number = 0 /\ history = <<>>
        /\ ideator_calls = <<>>
        /\ tool_invocations = <<>>
        /\ judge_calls = <<>>
        /\ overall_calls = <<>>
        /\ transcript = <<>>

\* main has returned after validate_config found no constitution file
C17_Witness == config_error = "constitution file not found" /\ pc = "done"

(***************************************************************************)
(* Containment of the file system adapter                                  *)
(***************************************************************************)
\* the files with their contents, and the directories, outside the working directory
OutsideFiles(d) == {f \in d.files : ~relative_to(f.location, working_directory)}
OutsideDirs(d) == {location \in d.dirs : ~relative_to(location, working_directory)}

\* the call just made asked for one of the five actions on a path whose
\* normalised location lies outside the working directory
EscapingCall(d) ==
    /\ d.called
    /\ d.request.json
    /\ d.request.action \in FileSystemActions
    /\ ~relative_to(resolve(d.request.path), working_directory)

\* C18: for every file-system action (read_file, write_file, list_files,
\* file_exists, delete_file) and every path whose normalised location lies
\* outside the working directory, the adapter returns an ERROR text and
\* creates, modifies or deletes nothing outside the working directory.
C18_SandboxContainment ==
    [][ EscapingCall(disk') =>
            /\ disk'.text[1] = "ERROR: "
            /\ OutsideFiles(disk') = OutsideFiles(disk)
            /\ OutsideDirs(disk') = OutsideDirs(disk) ]_vars

\* delete_file was asked for "../../passwd", a file that exists outside
C18_Witness ==
    /\ EscapingCall(disk)
    /\ disk.request.action = "delete_file"
    /\ disk.request.path = [absolute |-> FALSE, parts |-> <<"..", "..", "passwd">>]
    /\ is_file(disk, <<"passwd">>)

(***************************************************************************)
(* Timeouts of the tools                                                   *)
(***************************************************************************)
\* the call ran an operation that does not finish on its own within the
\* timeout: code that passed the checks of its method, or a silent search API
RunsPastTimeout(e) ==
    /\ e.called
    /\ \/ /\ e.adapter = "code_executor"
          /\ e.request.json /\ ~e.request.code.blank
          /\ timeout_accepted(e.request.timeout)
          /\ e.request.method \in {"safe", "subprocess"}
          /\ e.request.method = "safe" => e.request.code.pattern = ""
          /\ ~e.request.code.halts
       \/ /\ e.adapter = "web_search"
          /\ ~e.request.blank /\ ~e.request.answers

\* the text says that the operation timed out
NamesTimeout(t) ==
    /\ Len(t) >= 2
    /\ t[2] \in {"Code execution timed out after ", "Search request timed out for query"}

\* C19: for both code-execution methods and for web search, an operation that
\* does not finish on its own is aborted once the timeout has elapsed, and the
\* dispatch returns an error text that names the timeout.
C19_DispatchBoundedByTimeout ==
    RunsPastTimeout(execution) =>
        /\ execution.returns
        /\ execution.text # <<>> /\ execution.text[1] = "ERROR: "
        /\ NamesTimeout(execution.text)

(***************************************************************************)
(* Parsing the selector response                                           *)
(***************************************************************************)
\* C20: for every response text of the form REASONING: <text> followed by
\* ACTION: with a line "subenvironment: X" and a line "input_body: <JSON>",
\* parsing succeeds with an empty error and yields an Action whose tool name
\* is X and whose payload is the JSON document, equal to it once parsed.
C20_WellFormedResponseParses ==
    (parse.called /\ parse.well_formed) =>
        /\ parse.error = <<>>
        /\ parse.action.subenvironment = <<parse.tool>>
        /\ parse.action.input_body = <<parse.document>>
        /\ json_loads(parse.action.input_body) = json_loads(<<parse.document>>)

\* the ACTION section of a response, and the payload written in it
ActionSection(text) == strip(after(text, find(text, "ACTION:")))

PayloadIn(text) ==
    strip(after(ActionSection(text), find(ActionSection(text), "input_body:")))

\* the response has an ACTION section with a tool name and a payload, and the
\* payload is not one well-formed JSON document
MalformedPayload(text) ==
    /\ contains(text, "ACTION:")
    /\ contains(ActionSection(text), "subenvironment:")
    /\ Last(ActionSection(text)) # "subenvironment:"
    /\ contains(ActionSection(text), "input_body:")
    /\ ~(Len(PayloadIn(text)) = 1 /\ PayloadIn(text)[1] \in JsonDocuments)

\* C21: for every response text, parsing returns either an Action with an
\* empty error or no Action with a non-empty reason, never both and never
\* neither; a text with no ACTION section fails with a reason naming the
\* missing section, a text with no subenvironment line fails with a reason
\* naming the missing tool name, and a text whose input_body is not
\* well-formed JSON fails with a malformed-payload reason.
C21_ParseFailureReasons ==
    parse.called =>
        /\ \/ parse.error = <<>> /\ parse.action # None
           \/ parse.error # <<>> /\ parse.action = None
        /\ ~contains(parse.response_text, "ACTION:") =>
               parse.error = <<"No ACTION section found in response">>
        /\ (contains(parse.response_text, "ACTION:")
               /\ ~contains(parse.response_text, "subenvironment:")) =>
               parse.error = <<"No subenvironment specified in action">>
        /\ MalformedPayload(parse.response_text) =>
               /\ parse.error # <<>>
               /\ parse.error[1] = "Invalid JSON in input_body: "

\* a response with tool name and payload "{bad" has been parsed
C21_Witness ==
    /\ parse.called
    /\ MalformedPayload(parse.response_text)
    /\ PayloadIn(parse.response_text) = <<"{bad">>

(***************************************************************************)
(* The feedback in the selector prompt                                     *)
(***************************************************************************)
\* C22: at a SELECT step the feedback text placed in the selector prompt is
\* exactly the judge feedback of the most recently appended Percept, for
\* every tool-result text and judge text, those containing the marker
\* "Judge's Evaluation:" or the separator line included; before any Percept
\* is recorded it is empty.
C22_FeedbackIsLastPercept ==
    feedback.called =>
        IF feedback.history = <<>>
        THEN feedback.result = <<>>
        ELSE feedback.result = Last(feedback.history).judge_essay

(***************************************************************************)
(* Selection is tried once                                                 *)
(***************************************************************************)
\* C23: each cycle makes at most one call to the primary model, so the
\* number of primary-model calls is at most cycle_number in every reachable
\* state, a cycle that recorded its Percept made exactly one, and a failed
\* selection is never followed by another selection attempt in the same run.
C23_NoRetryInSelection ==
    /\ Len(ideator_calls) <= cycle_number
    /\ \A k \in 1..MaxCycles + 1 :
         /\ CallsIn(ideator_calls, k) <= 1
         /\ HasPercept(k) => CallsIn(ideator_calls, k) = 1
    /\ \A i \in DOMAIN ideator_calls :
         SelectorFailed(ideator_calls[i]) => i = Len(ideator_calls)

\* a selection failed in the last cycle after selections that succeeded, and
\* the run has ended
C23_Witness ==
    /\ pc = "done"
    /\ Len(ideator_calls) = MaxCycles
    /\ SelectorFailed(Last(ideator_calls))


\* ---------------------------------------------------------------------------
\* Dangerous code and the timeout of the code executor
\* ---------------------------------------------------------------------------

CodeExecutorCalled == execution.called /\ execution.adapter = "code_executor"

\* C24: for every code execution request, with method "safe" or "subprocess",
\* code that contains a listed dangerous pattern is answered with an ERROR
\* text and is never run.
C24_DangerousCodeBlocked ==
    (/\ CodeExecutorCalled
     /\ execution.request.method \in {"safe", "subprocess"}
     /\ execution.request.code.pattern # "") =>
        /\ execution.returns
        /\ execution.text[1] = "ERROR: "
        /\ ~execution.executed

\* the documented range of the timeout: a number from 1 to 60 seconds
InDocumentedRange(timeout) ==
    timeout.number /\ 10 <= timeout.tenths /\ timeout.tenths <= 10 * LargestTimeout

\* C25: the executor only ever runs with an integer timeout from 1 to 60, and a
\* request whose timeout is not a number from 1 to 60 is answered with an ERROR
\* text and runs no code.
C25_TimeoutRange ==
    CodeExecutorCalled =>
        /\ \A t \in execution.ran_with : 1 <= t /\ t <= LargestTimeout
        /\ ~InDocumentedRange(execution.request.timeout) =>
               /\ execution.returns
               /\ execution.text[1] = "ERROR: "
               /\ ~execution.executed
               /\ execution.ran_with = {}


\* ---------------------------------------------------------------------------
\* Counters of the agent state
\* ---------------------------------------------------------------------------

Actions == NumKind(history, "ACTION")
Percepts == NumKind(history, "PERCEPT")

CountersAgree ==
    /\ total_actions = Actions
    /\ Percepts \in {Actions, Actions - 1}
    /\ Percepts <= total_actions
    /\ total_actions <= cycle_number

\* C26: in every reachable state total_actions is the number of Action entries
\* of the history, the Percept entries are as many as the Action entries or one
\* fewer, and Percepts <= total_actions <= cycle_number <= max_cycles.
C26_CounterConsistency ==
    /\ CountersAgree
    /\ cycle_number <= max_cycles

\* C26 as amended: the same, with cycle_number bounded by max_cycles when the
\* configured max_cycles is not negative, and 0 when it is.
C26_CountersWithinConfigured ==
    /\ CountersAgree
    /\ cycle_number <= (IF max_cycles < 0 THEN 0 ELSE max_cycles)

\* the last cycle has selected its action and waits for its Percept
C26_Witness ==
    /\ pc = "evaluate"
    /\ cycle_number = MaxCycles
    /\ max_cycles = MaxCycles
    /\ total_actions = MaxCycles
    /\ Percepts = MaxCycles - 1


\* ---------------------------------------------------------------------------
\* Termination of the run
\* ---------------------------------------------------------------------------

\* main returned after the whole-run evaluation and the written transcript
EvaluatedAndSaved ==
    /\ pc = "done"
    /\ exit_code = "0"
    /\ overall_evaluation # <<>>
    /\ Len(transcript) = 1

\* main returned the failure status
FailureReturned == pc = "done" /\ exit_code = "1"

EndOfRun == EvaluatedAndSaved \/ FailureReturned

\* a cycle starts only at the head of the loop, below max_cycles, with the loop
\* not yet left
CycleStartsInLoop ==
    cycle_number' # cycle_number =>
        /\ pc = "loop"
        /\ cycle_number < max_cycles
        /\ loop_exit = "none"
        /\ cycle_number' = cycle_number + 1

\* the run is over, in whatever way
C27_Terminates == <>Terminated

\* C27: when every external call returns or raises, the run leaves the cycle
\* loop after at most max_cycles cycles and reaches its end, which is the
\* whole-run evaluation with the written transcript or the returned failure
\* status; no cycle starts once cycle_number = max_cycles or once the loop has
\* stopped.
C27_RunReachesItsEnd == <>EndOfRun /\ [][CycleStartsInLoop]_vars

\* the same without the liveness: a run that is over is at one of the two ends
C27_EndIsEvaluatedOrFailure == Terminated => EndOfRun

C27_NoLateCycle == [][CycleStartsInLoop]_vars


\* ---------------------------------------------------------------------------
\* What the per-action judge is given
\* ---------------------------------------------------------------------------

\* the cycles of the Percept blocks of a history, and each has one block
PerceptCycles(h) == {h[i].cycle : i \in {j \in DOMAIN h : h[j].kind = "PERCEPT"}}

\* the text that the dispatch of the Action block act produced in cycle k
DispatchResult(act, k) ==
    IF registered(act.subenvironment)
    THEN {_route_to_subenvironment(act, tool_invocations[i]) :
             i \in {j \in DOMAIN tool_invocations : tool_invocations[j].cycle = k}}
    ELSE {_route_to_subenvironment(act, [kind |-> "return", text |-> <<>>])}

\* C28: when the per-action judge is called in cycle k, the history it reads
\* ends with the Action entry of cycle k and holds the Percepts of the cycles
\* 1..k-1 and no other; the tool result it is given is the result of the
\* dispatch of cycle k.
C28_JudgeSeesCurrentCycle ==
    \A i \in DOMAIN judge_calls :
        LET call == judge_calls[i]
            k == call.cycle
        IN /\ call.history # <<>>
           /\ Last(call.history).kind = "ACTION"
           /\ Last(call.history).cycle = k
           /\ PerceptCycles(call.history) = 1..(k - 1)
           /\ NumKind(call.history, "PERCEPT") = k - 1
           /\ CallsIn(tool_invocations, k) <= 1
           /\ DispatchResult(Last(call.history), k) = {call.tool_result}

\* the judge of the last cycle is given a result other than that of cycle 1
C28_Witness ==
    \E i, j \in DOMAIN judge_calls :
        /\ judge_calls[i].cycle = 1
        /\ judge_calls[j].cycle = MaxCycles
        /\ judge_calls[j].tool_result # judge_calls[i].tool_result
        /\ Len(judge_calls[j].history) = 2 * MaxCycles - 1


\* ---------------------------------------------------------------------------
\* Token accounting
\* ---------------------------------------------------------------------------

\* a logged model call returned a text that is not empty
ReturnedText(c) == c.kind = "text" /\ c.text # <<>>

Successful(log) == Cardinality({i \in DOMAIN log : ReturnedText(log[i])})

Recorded(call_type) ==
    Cardinality({i \in DOMAIN usage_history : usage_history[i].call_type = call_type})

\* one record for each successful call, none for any other
OneRecordPerSuccessfulCall ==
    /\ Recorded("ideator") = Successful(ideator_calls)
    /\ Recorded("judge") = Successful(judge_calls)
    /\ Recorded("judge_overall") = Successful(overall_calls)
    /\ Len(usage_history) =
          Recorded("ideator") + Recorded("judge") + Recorded("judge_overall")

TotalsAddUp ==
    LET total == get_total_usage(usage_history) IN
    /\ total.total_calls =
          Successful(ideator_calls) + Successful(judge_calls) + Successful(overall_calls)
    /\ total.total_tokens = total.total_prompt_tokens + total.total_completion_tokens
    /\ \A i \in DOMAIN usage_history :
          /\ usage_history[i].prompt_tokens >= 1
          /\ usage_history[i].completion_tokens >= 1

\* all cycles ran and every model call of the run returned a text
AllModelCallsSucceeded ==
    /\ pc \in {"save", "done"}
    /\ loop_exit = "max_cycles"
    /\ Len(overall_calls) = 1
    /\ \A i \in DOMAIN ideator_calls : ReturnedText(ideator_calls[i])
    /\ \A i \in DOMAIN judge_calls : ReturnedText(judge_calls[i])
    /\ \A i \in DOMAIN overall_calls : ReturnedText(overall_calls[i])

TokenAccounting ==
    /\ OneRecordPerSuccessfulCall
    /\ TotalsAddUp
    /\ AllModelCallsSucceeded =>
          get_total_usage(usage_history).total_calls = 2 * cycle_number + 1

\* C29: a usage record is appended once for each model call (selector,
\* per-action judge, whole-run judge) that returned a non-empty text and for no
\* call that raised or returned the empty text; no record is ever removed;
\* total_calls is the number of the successful calls, 2M + 1 after a fully
\* successful run of M cycles; total_tokens is total_prompt_tokens plus
\* total_completion_tokens; every record counts at least 1 prompt and 1
\* completion token.
C29_TokenAccounting ==
    []TokenAccounting /\ [][IsPrefix(usage_history, usage_history')]_vars

\* the full run of MaxCycles cycles in which every model call returned a text
C29_Witness ==
    /\ pc = "done"
    /\ AllModelCallsSucceeded
    /\ cycle_number = MaxCycles
    /\ Len(usage_history) = 2 * MaxCycles + 1
    /\ get_total_usage(usage_history).total_tokens > 2 * MaxCycles + 1


\* ---------------------------------------------------------------------------
\* Rejected file-system requests
\* ---------------------------------------------------------------------------

\* the location a request names inside the working directory
Named(request) == _safe_path(request.path).location

\* the request now answered, on the disk d it was made on, is one of: no
\* JSON, an unknown action, write_file without content, delete_file on a
\* directory or on a path that does not exist
RejectedRequest(d, request) ==
    \/ ~request.json
    \/ request.action \notin FileSystemActions
    \/ request.action = "write_file" /\ request.content = ""
    \/ /\ request.action = "delete_file"
       /\ _safe_path(request.path).ok
       /\ \/ is_dir(d, Named(request))
          \/ Named(request) = working_directory
          \/ ~exists(d, Named(request))

\* C30: a write_file request with missing or empty content, a delete_file
\* request on a directory or on a path that does not exist, an unknown action
\* name and malformed JSON each return an ERROR text and create, truncate,
\* modify or delete no file; delete_file removes at most the one regular file
\* that the path names.
C30_RejectedRequestsChangeNothing ==
    [][ /\ RejectedRequest(disk, disk'.request) =>
              /\ disk'.text[1] = "ERROR: "
              /\ disk'.files = disk.files
        /\ (disk'.request.json /\ disk'.request.action = "delete_file") =>
              /\ disk'.files \subseteq disk.files
              /\ \A f \in disk.files \ disk'.files :
                    f.location = Named(disk'.request)
              /\ disk'.dirs \ {working_directory} = disk.dirs \ {working_directory} ]_vars

\* delete_file was asked for "d", a directory with a file in it
C30_Witness ==
    /\ disk.called
    /\ disk.request.json
    /\ disk.request.action = "delete_file"
    /\ disk.request.path = [absolute |-> FALSE, parts |-> <<"d">>]
    /\ is_dir(disk, <<"home", "wd", "d">>)
    /\ is_file(disk, <<"home", "wd", "d", "a">>)
    /\ disk.text[1] = "ERROR: "

====
